---- MODULE Spec2Model ----
(***************************************************************************)
(* A model of the BlogList component (src/src/js/BlogList.js): the load    *)
(* sequence of init/fetchData, the control listeners with the debounced    *)
(* search, the filter/sort pipeline of applyFiltersAndSorting, and the     *)
(* slice taken by render.                                                  *)
(*                                                                         *)
(* JavaScript values are modelled as tagged records so that a field may be *)
(* a string, absent (undefined) or of another type:                        *)
(*   title          [k: "str" | "absent" | "num", s: sequence of chars]    *)
(*   category       [k: "str" | "absent", s: string]                       *)
(*   reading_time   [k: "num" | "absent" | "str", n: number]               *)
(*   published_date [k: "str" | "absent", s: string]                       *)
(* A title of kind "num" is a truthy number such as 42; a reading_time of  *)
(* kind "str" is a non-numeric string such as "abc".                       *)
(* The DOM container is taken to hold all six elements the constructor     *)
(* looks up (the page's HTML is not part of the sources).                  *)
(***************************************************************************)
EXTENDS Integers, Sequences, FiniteSets, TLC

(***************************************************************************)
(* Bounds of the model.                                                    *)
(***************************************************************************)
\* longest master collection enumerated exhaustively over the record universe
MaxLen == 3
\* most search timers pending at once (1 suffices for the code as written)
MaxTimers == 2

(***************************************************************************)
(* Program constants.                                                      *)
(***************************************************************************)
\* this.perPage = 10
perPage == 10
\* setTimeout(this.onControlChange, 250)
SearchDelay == 250

\* time passes in steps of at most half the debounce delay
TickStep == SearchDelay \div 2

(***************************************************************************)
(* Strings as sequences of characters: String.prototype.toLowerCase and    *)
(* String.prototype.includes.                                              *)
(***************************************************************************)
ToLowerChar(c) ==
    CASE c = "A" -> "a"
      [] c = "I" -> "i"
      [] OTHER -> c

ToLowerCase(s) == [i \in 1..Len(s) |-> ToLowerChar(s[i])]

Includes(hay, needle) ==
    \E i \in 0..(Len(hay) - Len(needle)) :
        SubSeq(hay, i + 1, i + Len(needle)) = needle

(***************************************************************************)
(* Field values.                                                           *)
(***************************************************************************)
Str(s) == [k |-> "str", s |-> s]
AbsentTitle == [k |-> "absent", s |-> <<>>]
NumTitle == [k |-> "num", s |-> <<>>]
AbsentStr == [k |-> "absent", s |-> ""]
Num(n) == [k |-> "num", n |-> n]
AbsentNum == [k |-> "absent", n |-> 0]
StrNum == [k |-> "str", n |-> 0]

Blog(t, c, r, d) ==
    [title |-> t, category |-> c, reading_time |-> r, published_date |-> d]

(***************************************************************************)
(* new Date(v) - the time value, in days since the epoch, of the date      *)
(* strings the model uses; every other string, and undefined, gives an     *)
(* Invalid Date whose time value is NaN.                                   *)
(***************************************************************************)
NaN == [nan |-> TRUE, v |-> 0]
Number(n) == [nan |-> FALSE, v |-> n]

ParseDate(d) ==
    IF d.k = "absent" THEN NaN
    ELSE CASE d.s = "2023-12-31" -> Number(19722)
           [] d.s = "2024-03-01" -> Number(19783)
           [] d.s = "2024-03-02" -> Number(19784)
           [] OTHER -> NaN

\* a - b on JavaScript numbers
Minus(a, b) == IF a.nan \/ b.nan THEN NaN ELSE Number(a.v - b.v)

(***************************************************************************)
(* (x || '') and (x || 0) for the fields the pipeline reads.               *)
(***************************************************************************)
\* (blog.title || ''): a string, or the number itself when the title is one
TitleOrEmpty(t) == IF t.k = "absent" THEN Str(<<>>) ELSE t

\* (blog.category || '')
CategoryOrEmpty(c) == IF c.k = "absent" THEN "" ELSE c.s

\* (blog.reading_time || 0): 0 is falsy too; a non-numeric string stays and
\* becomes NaN in the subtraction
\* (a.reading_time || 5): the default of the card used in the comparator
ReadingTimeOrZero_Five(r) ==
    CASE r.k = "num" -> Number(IF r.n = 0 THEN 5 ELSE r.n)
      [] r.k = "absent" -> Number(5)
      [] OTHER -> NaN

ReadingTimeOrZero(r) ==
    CASE r.k = "num" -> Number(r.n)
      [] r.k = "absent" -> Number(0)
      [] OTHER -> NaN

(***************************************************************************)
(* String.prototype.localeCompare on the category labels of the model:     *)
(* the empty string first, then alphabetically, lower case before upper    *)
(* case of the same letters.                                               *)
(***************************************************************************)
CollationRank(s) ==
    CASE s = "" -> 0
      [] s = "gadgets" -> 1
      [] s = "Gadgets" -> 2
      [] s = "startups" -> 3
      [] s = "Startups" -> 4
      [] s = "Writing" -> 5
      [] OTHER -> 6

Sign(n) == IF n < 0 THEN -1 ELSE IF n > 0 THEN 1 ELSE 0

LocaleCompare(a, b) == Sign(CollationRank(a) - CollationRank(b))

(***************************************************************************)
(* applyFiltersAndSorting, step by step.  A step's result is               *)
(* [k |-> "ok", list |-> ...], or [k |-> "throw", list |-> <<>>] when it   *)
(* raises a TypeError.                                                     *)
(***************************************************************************)
Ok(list) == [k |-> "ok", list |-> list]
Throw == [k |-> "throw", list |-> <<>>]

\* the copy taken from the list filtered before
WorkingList_Filtered(its, filtered) == filtered

\* let workingList = [...this.items]
WorkingList(its, filtered) == its

\* blog => (blog.title || '').toLowerCase().includes(searchTerm); calling
\* toLowerCase on a number raises a TypeError
TitleThrows(blog) == TitleOrEmpty(blog.title).k = "num"

\* the title compared as it is written
TitleMatches_CaseSensitive(blog, searchTerm) ==
    Includes(TitleOrEmpty(blog.title).s, searchTerm)

TitleMatches(blog, searchTerm) ==
    Includes(ToLowerCase(TitleOrEmpty(blog.title).s), searchTerm)

\* 1. search: const searchTerm = (value || '').toLowerCase(); filter if non-empty
SearchStep(list, value) ==
    LET searchTerm == ToLowerCase(value) IN
    IF searchTerm = <<>> THEN Ok(list)
    ELSE IF \E i \in 1..Len(list) : TitleThrows(list[i]) THEN Throw
    ELSE Ok(SelectSeq(list, LAMBDA blog : TitleMatches(blog, searchTerm)))

\* blog => (blog.category === categoryFilter)
CategoryMatches(blog, categoryFilter) ==
    blog.category.k = "str" /\ blog.category.s = categoryFilter

\* the filter's result not assigned back
CategoryStep_Dropped(list, categoryFilter) == list

\* 2. category: filter if the selector's value is non-empty
CategoryStep(list, categoryFilter) ==
    IF categoryFilter = "" THEN list
    ELSE SelectSeq(list, LAMBDA blog : CategoryMatches(blog, categoryFilter))

\* the comparator handed to sort: its result as a JavaScript number
Compare(sortType, a, b) ==
    CASE sortType = "date" ->
            Minus(ParseDate(b.published_date), ParseDate(a.published_date))
      [] sortType = "reading_time" ->
            Minus(ReadingTimeOrZero(a.reading_time),
                  ReadingTimeOrZero(b.reading_time))
      [] sortType = "category" ->
            Number(LocaleCompare(CategoryOrEmpty(a.category),
                                 CategoryOrEmpty(b.category)))
      [] OTHER -> Number(0)

\* Array.prototype.sort reads a comparator result of NaN as +0
SortCompare(sortType, a, b) ==
    LET v == Compare(sortType, a, b) IN IF v.nan THEN 0 ELSE Sign(v.v)

Range(list) == {list[i] : i \in 1..Len(list)}

\* a consistent comparator for the values of list, as ECMAScript defines it
Consistent(list, sortType) ==
    LET S == Range(list)
        c(a, b) == SortCompare(sortType, a, b)
    IN /\ \A a \in S : c(a, a) = 0
       /\ \A a, b \in S : c(a, b) = -c(b, a)
       /\ \A a, b, d \in S :
            /\ (c(a, b) = 0 /\ c(b, d) = 0) => c(a, d) = 0
            /\ (c(a, b) < 0 /\ c(b, d) < 0) => c(a, d) < 0

\* x put into the sorted list after every element that does not follow it
RECURSIVE Insert(_, _, _)
Insert(sorted, x, sortType) ==
    IF sorted = <<>> THEN <<x>>
    ELSE IF SortCompare(sortType, x, Head(sorted)) < 0 THEN <<x>> \o sorted
    ELSE <<Head(sorted)>> \o Insert(Tail(sorted), x, sortType)

\* the stable sort ECMAScript requires for a consistent comparator
RECURSIVE StableSort(_, _)
StableSort(list, sortType) ==
    IF list = <<>> THEN <<>>
    ELSE Insert(StableSort(SubSeq(list, 1, Len(list) - 1), sortType),
                list[Len(list)], sortType)

Reorderings(list) ==
    {[i \in 1..Len(list) |-> list[p[i]]] : p \in Permutations(1..Len(list))}

\* 3. sort, if the selector's value is non-empty: the sorted list for a
\* consistent comparator; with an inconsistent one the order is
\* implementation-defined, any reordering of the list
SortStep(list, sortType) ==
    IF sortType = "" \/ Len(list) < 2 THEN {list}
    ELSE IF Consistent(list, sortType) THEN {StableSort(list, sortType)}
    ELSE Reorderings(list)

\* the results applyFiltersAndSorting can compute for this.filteredItems
ApplyFiltersAndSorting(its, filtered, value, categoryFilter, sortType) ==
    LET searched == SearchStep(WorkingList(its, filtered), value) IN
    IF searched.k = "throw" THEN {Throw}
    ELSE {Ok(l) : l \in SortStep(CategoryStep(searched.list, categoryFilter),
                                 sortType)}

(***************************************************************************)
(* render: the slice shown and the list area's content.                    *)
(***************************************************************************)
Min(a, b) == IF a < b THEN a ELSE b

\* slice(0, end - 1)
Slice_OffByOne(filtered, p) ==
    SubSeq(filtered, 1, Min(p * perPage - 1, Len(filtered)))

\* slice(end - perPage, end): one page at a time
Slice_Window(filtered, p) ==
    SubSeq(filtered, (p - 1) * perPage + 1, Min(p * perPage, Len(filtered)))

\* this.filteredItems.slice(0, this.page * this.perPage)
Slice(filtered, p) == SubSeq(filtered, 1, Min(p * perPage, Len(filtered)))

Blank == [kind |-> "blank", cards |-> <<>>]

\* render without the branch for an empty slice
Render_NoEmptyBranch(filtered, p) ==
    LET slice == Slice(filtered, p) IN
    IF Len(slice) = 0 THEN Blank ELSE [kind |-> "cards", cards |-> slice]

Render(filtered, p) ==
    LET slice == Slice(filtered, p) IN
    IF Len(slice) = 0 THEN [kind |-> "noresults", cards |-> <<>>]
    ELSE [kind |-> "cards", cards |-> slice]

\* the text of a card's reading-time span: ${item.reading_time || 5} min read
\* (a non-numeric string such as 'abc' is printed as it is)
ReadingTimeText(r) ==
    (CASE r.k = "num" -> ToString(IF r.n = 0 THEN 5 ELSE r.n)
       [] r.k = "absent" -> ToString(5)
       [] OTHER -> "abc") \o " min read"

(***************************************************************************)
(* The inputs: the records a response may hold, the values the controls    *)
(* may take, and what the endpoint may answer.                             *)
(***************************************************************************)
BlogA == Blog(Str(<<"A", "I", "x">>), Str("Startups"), Num(5), Str("2024-03-01"))
BlogB == Blog(Str(<<"a", "i">>), Str("startups"), AbsentNum, Str("garbage"))
BlogC == Blog(AbsentTitle, AbsentStr, Num(5), Str("2023-12-31"))

\* records with a field of the wrong type
BlogM == Blog(NumTitle, Str("Gadgets"), Num(5), Str("2024-03-02"))
BlogN == Blog(Str(<<"a", "i">>), Str("Startups"), StrNum, Str("2024-03-01"))

TypedBlogs == {BlogA, BlogB, BlogC}
MalformedBlogs == {BlogA, BlogM, BlogN}

SeqsUpTo(S, n) == UNION {[1..m -> S] : m \in 0..n}

\* the i-th record of a long collection: all fields present
LongBlog(i) ==
    Blog(Str(<<"A", "I">>), Str("Writing"), Num(1 + (i % 4)),
         Str(IF i % 2 = 0 THEN "2024-03-01" ELSE "2024-03-02"))

LongMaster(n) == [i \in 1..n |-> LongBlog(i)]

\* collections long enough for the slice to cut them: more than one page,
\* more than two pages
LongLengths == {perPage + 2, 2 * perPage + 5}

Masters == SeqsUpTo(TypedBlogs, MaxLen) \cup {LongMaster(n) : n \in LongLengths}
MalformedMasters == SeqsUpTo(MalformedBlogs, MaxLen)

\* the collections served to two overlapping loads
ReloadMasters == {<<BlogA>>, <<BlogA, BlogB>>}

SearchValues == {<<>>, <<"A", "I">>, <<"a", "i">>}
CategoryValues == {"", "Startups"}
SortValues == {"", "date", "reading_time", "category"}

Statuses == {200, 404, 500}

\* what the endpoint serves: a JSON array, another JSON value, or no JSON
ArrayBody(data) == [k |-> "array", data |-> data, text |-> "[...]"]

\* bodies that are no JSON: an HTML page, an empty body
InvalidTexts == {"<html>", ""}
Bodies(masters) ==
    {ArrayBody(m) : m \in masters}
        \cup {[k |-> "object", data |-> <<>>, text |-> "{}"]}
        \cup {[k |-> "invalid", data |-> <<>>, text |-> t] : t \in InvalidTexts}

(***************************************************************************)
(* The error messages.  The texts of the errors the platform raises are    *)
(* the engine's; the model fixes one text for each.                        *)
(***************************************************************************)
\* `Failed to fetch blogs (Status: ${res.status})`
StatusMessage(status) == "Failed to fetch blogs (Status: " \o ToString(status) \o ")"
NotArrayMessage == "Unexpected API response structure"
\* the message of the TypeError fetch rejects with is the platform's: the
\* wording of Chrome, of Node (undici), of Firefox and of Safari
NetworkMessages ==
    {"Failed to fetch", "fetch failed",
     "NetworkError when attempting to fetch resource.", "Load failed"}
\* the SyntaxError of res.json(), in V8's wording: for a body that ends
\* before any value, and for the body <html>
SyntaxMessage(text) ==
    IF text = "" THEN "Unexpected end of JSON input"
    ELSE "Unexpected token '<', \"" \o text \o "\" is not valid JSON"
\* the TypeError of line 94, in V8's wording
TypeErrorMessage == "(blog.title || \"\").toLowerCase is not a function"

\* the caught error thrown again as it is
FetchDataError_Rethrown(message) == message

\* fetchData's catch: throw new Error(`Data loading failed: ${error.message}`)
FetchDataError(message) == "Data loading failed: " \o message

\* showError: `Error: ${err.message}. Please check the console for details.`
ErrorText(message) == "Error: " \o message \o ". Please check the console for details."

(***************************************************************************)
(* The state.                                                              *)
(***************************************************************************)
VARIABLES
    items,          \* this.items, the master collection
    filteredItems,  \* this.filteredItems
    page,           \* this.page
    searchValue,    \* searchInput.value
    categoryValue,  \* filterSelect.value
    sortValue,      \* sortSelect.value
    listening,      \* setupEventListeners has registered the listeners
    timers,         \* remaining delays of the pending search timers, oldest first
    sinceInput,     \* time since the last handled input event, up to SearchDelay
    burst,          \* the current burst: input events handled (none, one,
                    \* many) and timer callbacks run
    loadingVisible, \* the loading indicator does not carry the class hidden
    errorVisible,   \* the error container does not carry the class hidden
    errorText,      \* errorContainer.textContent
    listView,       \* listContainer's content: blank, the no-results note, or cards
    initPc,         \* where init stands: idle, fetching, reading, assigned, done
    feed,           \* the kind of records the endpoint serves: typed, malformed
    loadOutcome,    \* how the load ended
    lastOp,         \* what the last step ran: a handler, a stretch of init, none
    lastThrew,      \* that handler ended with an uncaught error
    fetches,        \* the calls of fetch made so far
    delivered,      \* per call of init, the array its res.json() resolved with
    resolvedLast,   \* the call whose array arrived last, 0 before any
    initPc2,        \* where a second, overlapping call of init stands
    loadOutcome2,   \* how the second call's load ended
    listening2,     \* the second call has registered its own input listener
    timers2         \* the pending timers of the second input listener

vars == <<items, filteredItems, page, searchValue, categoryValue, sortValue,
          listening, timers, sinceInput, burst, loadingVisible, errorVisible,
          errorText, listView, initPc, feed, loadOutcome, lastOp, lastThrew,
          fetches, delivered, resolvedLast, initPc2, loadOutcome2, listening2,
          timers2>>

controls == <<searchValue, categoryValue, sortValue>>
debounce == <<timers, timers2, sinceInput, burst>>
surfaces == <<loadingVisible, errorVisible, errorText, listView>>
first == <<initPc, loadOutcome, listening>>
second == <<initPc2, loadOutcome2, listening2>>
requests == <<fetches, delivered, resolvedLast>>
loader == <<first, second, requests, feed>>

Outcome(k, status) == [k |-> k, status |-> status]

\* no array has arrived for the call
NotDelivered == <<>>

\* the collections an endpoint of the given kind may serve
FeedMasters(f) ==
    CASE f = "typed" -> Masters
      [] f = "reload" -> ReloadMasters
      [] OTHER -> MalformedMasters

\* the state the constructor leaves, for an endpoint of the given kind
Constructed(f) ==
    /\ items = <<>>
    /\ filteredItems = <<>>
    /\ page = 1
    /\ searchValue = <<>>
    /\ categoryValue = ""
    /\ sortValue = ""
    /\ listening = FALSE
    /\ timers = <<>>
    /\ sinceInput = SearchDelay
    /\ burst = [events |-> "none", runs |-> 0]
    /\ loadingVisible \in BOOLEAN
    /\ errorVisible = FALSE
    /\ errorText = ""
    /\ listView = Blank
    /\ initPc = "idle"
    /\ feed = f
    /\ loadOutcome = Outcome("none", 0)
    /\ lastOp = "none"
    /\ lastThrew = FALSE
    /\ fetches = 0
    /\ delivered = <<NotDelivered, NotDelivered>>
    /\ resolvedLast = 0
    /\ initPc2 = "idle"
    /\ loadOutcome2 = Outcome("none", 0)
    /\ listening2 = FALSE
    /\ timers2 = <<>>

Init == Constructed("typed")
InitMalformed == Constructed("malformed")
InitReload == Constructed("reload")

(***************************************************************************)
(* init and fetchData.  The synchronous stretches between two awaits run   *)
(* without interleaving, so each is one action.  A stretch of fetchData    *)
(* that ends in an error writes no state, so it is joined with init's      *)
(* catch and finally, which run one microtask later.                       *)
(***************************************************************************)
\* how a load that failed on the body's text is recorded
SyntaxOutcome(text) == IF text = "" THEN "empty" ELSE "syntax"

\* a call has assigned this.items and its init has not resumed yet: the
\* continuation is a microtask, so no event handler and no timer runs before
\* it; only the other call's continuations may, if they settle in this task
InHop == initPc = "assigned" \/ initPc2 = "assigned"
\* res.ok
ResponseOk(status) == status \in 200..299

\* showLoading / hideLoading: the indicator is visible without the class hidden
ShowLoading == TRUE
HideLoading_Shown == TRUE
HideLoading == FALSE

\* fetch(this.apiUrl): one more network read
Fetch(n) == n + 1

\* fetchData's catch fetches again before giving up
FetchesAfterFailure_Retry(n) == Fetch(n)

\* fetchData's catch and init's catch: the error is rethrown and shown, the
\* fetch is not repeated
FetchesAfterFailure(n) == n

\* the array is kept only if it answers the most recent call of init
AssignItems_LatestCall(current, data, call) ==
    IF call = (IF initPc2 = "idle" THEN 1 ELSE 2) THEN data ELSE current

\* this.items = data, whichever call's response the array is
AssignItems(current, data, call) == data

\* setupEventListeners called before fetchData
ListeningAfterFailure_Registered(l) == TRUE

\* init's try block: an error thrown by fetchData skips setupEventListeners,
\* so the call registers nothing
ListeningAfterFailure(l) == l

\* this.items = workingList after the sort
ItemsAfterSort_Overwritten(its, sorted) == sorted

\* this.items after applyFiltersAndSorting: the filters and the sort work on
\* the copy [...this.items]
ItemsAfterSort(its, sorted) == its

\* init up to the first await: showLoading(), then fetchData() calls fetch
InitCall ==
    /\ initPc = "idle"
    /\ loadingVisible' = ShowLoading
    /\ initPc' = "fetching"
    /\ fetches' = Fetch(fetches)
    /\ lastOp' = "init"
    /\ lastThrew' = FALSE
    /\ UNCHANGED <<items, filteredItems, page, controls, debounce, errorVisible,
                   errorText, listView, feed, loadOutcome, listening, second,
                   delivered, resolvedLast>>

\* an error raised inside fetchData: its catch wraps the message, init's catch
\* hands it to showError, init's finally hides the indicator
LoadFails(outcome, message) ==
    /\ loadOutcome' = outcome
    /\ errorVisible' = TRUE
    /\ errorText' = ErrorText(FetchDataError(message))
    /\ listView' = Blank
    /\ loadingVisible' = HideLoading
    /\ initPc' = "done"
    /\ fetches' = FetchesAfterFailure(fetches)
    /\ listening' = ListeningAfterFailure(listening)
    /\ lastThrew' = FALSE
    /\ UNCHANGED <<items, filteredItems, page, controls, debounce, feed, second,
                   delivered, resolvedLast>>

\* fetch rejects: a transport failure, in the platform's wording (the same
\* wording as the other call's rejection, if that is what the surface shows)
FetchRejected(message) ==
    /\ initPc = "fetching"
    /\ loadOutcome2.k = "network" => errorText = ErrorText(FetchDataError(message))
    /\ lastOp' = "fetchRejected"
    /\ LoadFails(Outcome("network", 0), message)

\* fetch resolves with a response
FetchResponded(status) ==
    /\ initPc = "fetching"
    /\ lastOp' = "fetchResponded"
    /\ IF ResponseOk(status)
       THEN /\ initPc' = "reading"
            /\ loadOutcome' = Outcome("reading", status)
            /\ lastThrew' = FALSE
            /\ UNCHANGED <<items, filteredItems, page, controls, debounce,
                           surfaces, feed, listening, second, requests>>
       ELSE LoadFails(Outcome("status", status), StatusMessage(status))

\* res.json() settles; on an array fetchData assigns this.items = data and
\* returns
BodyRead(body) ==
    /\ initPc = "reading"
    /\ lastOp' = "bodyRead"
    /\ CASE body.k = "invalid" ->
                LoadFails(Outcome(SyntaxOutcome(body.text), loadOutcome.status),
                          SyntaxMessage(body.text))
         [] body.k = "object" ->
                LoadFails(Outcome("notarray", loadOutcome.status), NotArrayMessage)
         [] OTHER ->
                /\ items' = AssignItems(items, body.data, 1)
                /\ delivered' = [delivered EXCEPT ![1] = body.data]
                /\ resolvedLast' = 1
                /\ initPc' = "assigned"
                /\ lastThrew' = FALSE
                /\ UNCHANGED <<filteredItems, page, controls, debounce, surfaces,
                               feed, second, fetches, loadOutcome, listening>>

\* init resumes after await this.fetchData(): setupEventListeners(),
\* applyFiltersAndSorting() on this.items as it is now, init's catch and
\* finally; of two calls waiting to resume, the one that assigned first
\* resumes first
InitResumes ==
    /\ initPc = "assigned"
    /\ initPc2 = "assigned" => resolvedLast # 1
    /\ lastOp' = "initResumed"
    /\ listening' = TRUE
    /\ \E out \in ApplyFiltersAndSorting(items, filteredItems,
                        searchValue, categoryValue, sortValue) :
         IF out.k = "ok"
         THEN /\ items' = ItemsAfterSort(items, out.list)
              /\ filteredItems' = out.list
              /\ listView' = Render(out.list, page)
              /\ loadOutcome' = Outcome("ok", loadOutcome.status)
              /\ UNCHANGED <<errorVisible, errorText>>
         ELSE /\ loadOutcome' = Outcome("pipeline", loadOutcome.status)
              /\ errorVisible' = TRUE
              /\ errorText' = ErrorText(TypeErrorMessage)
              /\ listView' = Blank
              /\ UNCHANGED <<items, filteredItems>>
    /\ loadingVisible' = HideLoading
    /\ initPc' = "done"
    /\ lastThrew' = FALSE
    /\ UNCHANGED <<page, controls, debounce, feed, second, requests>>

(***************************************************************************)
(* The control listeners.                                                  *)
(***************************************************************************)
\* this.page += 1
ResetPage_Increment(p) == p + 1

\* this.page = 1
ResetPage(p) == 1

\* onControlChange, with the controls' new values: the page is reset, then
\* applyFiltersAndSorting assigns filteredItems and renders; a TypeError
\* leaves the handler before the assignment
OnControlChange ==
    /\ lastOp' = "onControlChange"
    /\ page' = ResetPage(page)
    /\ \E out \in ApplyFiltersAndSorting(items, filteredItems, searchValue',
                                         categoryValue', sortValue') :
         IF out.k = "ok"
         THEN /\ items' = ItemsAfterSort(items, out.list)
              /\ filteredItems' = out.list
              /\ listView' = Render(out.list, page')
              /\ lastThrew' = FALSE
         ELSE /\ UNCHANGED <<items, filteredItems, listView>>
              /\ lastThrew' = TRUE
    /\ UNCHANGED <<loadingVisible, errorVisible, errorText, loader>>

\* a control's value changes while no listener is registered
NoHandler ==
    /\ lastOp' = "none"
    /\ lastThrew' = FALSE
    /\ UNCHANGED <<items, filteredItems, page, debounce, surfaces, loader>>

\* the sort selector's change event; the one change listener is registered
\* once either call has set up its listeners
SortChange(v) ==
    /\ ~InHop
    /\ v # sortValue
    /\ sortValue' = v
    /\ UNCHANGED <<searchValue, categoryValue>>
    /\ IF listening \/ listening2
       THEN OnControlChange /\ UNCHANGED debounce
       ELSE NoHandler

\* the category selector's change event
CategoryChange(v) ==
    /\ ~InHop
    /\ v # categoryValue
    /\ categoryValue' = v
    /\ UNCHANGED <<searchValue, sortValue>>
    /\ IF listening \/ listening2
       THEN OnControlChange /\ UNCHANGED debounce
       ELSE NoHandler

\* the pending timer left to run
ClearTimeout_Kept(ts) == ts

\* clearTimeout(searchTimer): searchTimer names the timer scheduled last,
\* which is the last of the pending ones if it has not fired
ClearTimeout(ts) == IF ts = <<>> THEN ts ELSE SubSeq(ts, 1, Len(ts) - 1)

\* the input listener without its setTimeout
SetTimeout_Never(ts) == ts

\* setTimeout(this.onControlChange, 250)
SetTimeout(ts) == Append(ts, SearchDelay)

\* the search field's input event: each registered input listener clears its
\* own timer and schedules a new one
SearchInput(v) ==
    /\ ~InHop
    /\ v # searchValue
    /\ searchValue' = v
    /\ UNCHANGED <<categoryValue, sortValue>>
    /\ IF listening \/ listening2
       THEN /\ Len(ClearTimeout(timers)) < MaxTimers
            /\ Len(ClearTimeout(timers2)) < MaxTimers
            /\ timers' = IF listening THEN SetTimeout(ClearTimeout(timers)) ELSE timers
            /\ timers2' = IF listening2 THEN SetTimeout(ClearTimeout(timers2)) ELSE timers2
            /\ sinceInput' = 0
            /\ burst' = IF sinceInput < SearchDelay
                        THEN [burst EXCEPT !.events = "many"]
                        ELSE [events |-> "one", runs |-> 0]
            /\ lastOp' = "searchInput"
            /\ lastThrew' = FALSE
            /\ UNCHANGED <<items, filteredItems, page, surfaces, loader>>
       ELSE NoHandler

\* the call whose input listener was registered first: the calls resume in
\* the order their arrays arrived, so it is the second call's exactly when
\* both have registered and the first call's array arrived last
RegisteredFirst == IF listening /\ listening2 /\ resolvedLast = 1 THEN 2 ELSE 1

\* a search timer's delay has passed: its callback, onControlChange, runs
SearchFire ==
    /\ ~InHop
    /\ timers # <<>>
    /\ Head(timers) = 0
    /\ RegisteredFirst = 1 \/ \A i \in 1..Len(timers2) : timers2[i] > 0
    /\ timers' = Tail(timers)
    /\ burst' = [burst EXCEPT !.runs = @ + 1]
    /\ UNCHANGED <<controls, sinceInput, timers2>>
    /\ OnControlChange

\* a timer of the second input listener is due; of two timers due at once the
\* one of the listener registered first was scheduled first and runs first
SearchFire2 ==
    /\ ~InHop
    /\ timers2 # <<>>
    /\ Head(timers2) = 0
    /\ RegisteredFirst = 2 \/ \A i \in 1..Len(timers) : timers[i] > 0
    /\ timers2' = Tail(timers2)
    /\ burst' = [burst EXCEPT !.runs = @ + 1]
    /\ UNCHANGED <<controls, sinceInput, timers>>
    /\ OnControlChange

\* time passes, up to the moment the next timer is due
Tick ==
    /\ ~InHop
    /\ \A i \in 1..Len(timers) : timers[i] > 0
    /\ \A i \in 1..Len(timers2) : timers2[i] > 0
    /\ timers # <<>> \/ timers2 # <<>> \/ sinceInput < SearchDelay
    /\ LET d1 == IF timers = <<>> THEN TickStep ELSE Min(TickStep, Head(timers))
           d == IF timers2 = <<>> THEN d1 ELSE Min(d1, Head(timers2))
       IN
         /\ timers' = [i \in 1..Len(timers) |-> timers[i] - d]
         /\ timers2' = [i \in 1..Len(timers2) |-> timers2[i] - d]
         /\ sinceInput' = Min(sinceInput + d, SearchDelay)
    /\ lastOp' = "none"
    /\ lastThrew' = FALSE
    /\ UNCHANGED <<items, filteredItems, page, controls, burst, surfaces, loader>>

\* a call of advancePage on the instance: the class defines no such member,
\* so the call raises a TypeError and changes nothing
AdvancePage ==
    /\ ~InHop
    /\ lastOp' = "advancePage"
    /\ lastThrew' = TRUE
    /\ UNCHANGED <<items, filteredItems, page, controls, debounce, surfaces, loader>>

Next ==
    \/ InitCall
    \/ \E message \in NetworkMessages : FetchRejected(message)
    \/ \E status \in Statuses : FetchResponded(status)
    \/ \E b \in Bodies(FeedMasters(feed)) : BodyRead(b)
    \/ InitResumes
    \/ \E v \in SortValues : SortChange(v)
    \/ \E v \in CategoryValues : CategoryChange(v)
    \/ \E v \in SearchValues : SearchInput(v)
    \/ SearchFire
    \/ Tick
    \/ AdvancePage

Spec == Init /\ [][Next]_vars

(***************************************************************************)
(* A second call of init made while the first is still waiting for its     *)
(* response.  Both calls work on the same instance: the same items, the    *)
(* same surfaces, the same change listener (addEventListener ignores the   *)
(* second registration of the bound onControlChange), but each successful  *)
(* call registers an input listener of its own, with its own searchTimer.  *)
(***************************************************************************)
\* the second call up to its first await
InitCall2 ==
    /\ initPc \in {"fetching", "reading"}
    /\ initPc2 = "idle"
    /\ loadingVisible' = ShowLoading
    /\ initPc2' = "fetching"
    /\ fetches' = Fetch(fetches)
    /\ lastOp' = "init"
    /\ lastThrew' = FALSE
    /\ UNCHANGED <<items, filteredItems, page, controls, debounce, errorVisible,
                   errorText, listView, feed, first, loadOutcome2, listening2,
                   delivered, resolvedLast>>

\* an error raised inside the second call's fetchData
LoadFails2(outcome, message) ==
    /\ loadOutcome2' = outcome
    /\ errorVisible' = TRUE
    /\ errorText' = ErrorText(FetchDataError(message))
    /\ listView' = Blank
    /\ loadingVisible' = HideLoading
    /\ initPc2' = "done"
    /\ fetches' = FetchesAfterFailure(fetches)
    /\ listening2' = ListeningAfterFailure(listening2)
    /\ lastThrew' = FALSE
    /\ UNCHANGED <<items, filteredItems, page, controls, debounce, feed, first,
                   delivered, resolvedLast>>

\* the second call's fetch rejects
FetchRejected2(message) ==
    /\ initPc2 = "fetching"
    /\ loadOutcome.k = "network" => errorText = ErrorText(FetchDataError(message))
    /\ lastOp' = "fetchRejected"
    /\ LoadFails2(Outcome("network", 0), message)

\* the second call's fetch resolves with a response
FetchResponded2(status) ==
    /\ initPc2 = "fetching"
    /\ lastOp' = "fetchResponded"
    /\ IF ResponseOk(status)
       THEN /\ initPc2' = "reading"
            /\ loadOutcome2' = Outcome("reading", status)
            /\ lastThrew' = FALSE
            /\ UNCHANGED <<items, filteredItems, page, controls, debounce,
                           surfaces, feed, first, listening2, requests>>
       ELSE LoadFails2(Outcome("status", status), StatusMessage(status))

\* the second call's res.json() settles
BodyRead2(body) ==
    /\ initPc2 = "reading"
    /\ lastOp' = "bodyRead"
    /\ CASE body.k = "invalid" ->
                LoadFails2(Outcome(SyntaxOutcome(body.text), loadOutcome2.status),
                          SyntaxMessage(body.text))
         [] body.k = "object" ->
                LoadFails2(Outcome("notarray", loadOutcome2.status), NotArrayMessage)
         [] OTHER ->
                /\ items' = AssignItems(items, body.data, 2)
                /\ delivered' = [delivered EXCEPT ![2] = body.data]
                /\ resolvedLast' = 2
                /\ initPc2' = "assigned"
                /\ lastThrew' = FALSE
                /\ UNCHANGED <<filteredItems, page, controls, debounce, surfaces,
                               feed, first, fetches, loadOutcome2, listening2>>

\* the second call's init resumes after await this.fetchData(): setupEventListeners(),
\* applyFiltersAndSorting() on this.items as it is now, init's catch and
\* finally; of two calls waiting to resume, the one that assigned first
\* resumes first
InitResumes2 ==
    /\ initPc2 = "assigned"
    /\ initPc = "assigned" => resolvedLast # 2
    /\ lastOp' = "initResumed"
    /\ listening2' = TRUE
    /\ \E out \in ApplyFiltersAndSorting(items, filteredItems,
                        searchValue, categoryValue, sortValue) :
         IF out.k = "ok"
         THEN /\ items' = ItemsAfterSort(items, out.list)
              /\ filteredItems' = out.list
              /\ listView' = Render(out.list, page)
              /\ loadOutcome2' = Outcome("ok", loadOutcome2.status)
              /\ UNCHANGED <<errorVisible, errorText>>
         ELSE /\ loadOutcome2' = Outcome("pipeline", loadOutcome2.status)
              /\ errorVisible' = TRUE
              /\ errorText' = ErrorText(TypeErrorMessage)
              /\ listView' = Blank
              /\ UNCHANGED <<items, filteredItems>>
    /\ loadingVisible' = HideLoading
    /\ initPc2' = "done"
    /\ lastThrew' = FALSE
    /\ UNCHANGED <<page, controls, debounce, feed, first, requests>>

NextReload ==
    \/ Next
    \/ InitCall2
    \/ \E message \in NetworkMessages : FetchRejected2(message)
    \/ \E status \in Statuses : FetchResponded2(status)
    \/ \E b \in Bodies(FeedMasters(feed)) : BodyRead2(b)
    \/ InitResumes2
    \/ SearchFire2

SpecReload == InitReload /\ [][NextReload]_vars

\* the same component when the endpoint serves records with ill-typed fields
SpecMalformed == InitMalformed /\ [][Next]_vars

(***************************************************************************)
(* Properties.                                                             *)
(***************************************************************************)
\* the load succeeded and no search timer is pending: the controls' values
\* are the ones the last pipeline run read
Settled == loadOutcome.k = "ok" /\ timers = <<>>

\* the lower-cased title (empty if absent) holds the lower-cased value at
\* some offset
TitleHolds(blog, value) ==
    LET t == IF blog.title.k = "str" THEN ToLowerCase(blog.title.s) ELSE <<>>
        w == ToLowerCase(value)
    IN \E off \in 0..Len(t) :
         /\ off + Len(w) <= Len(t)
         /\ \A j \in 1..Len(w) : t[off + j] = w[j]

\* the record's category is the selected one, or none is selected
CategoryHolds(blog, category) ==
    category = "" \/ (blog.category.k = "str" /\ blog.category.s = category)

\* the records of its that pass the search and category tests, in its order
Passing(its, value, category) ==
    SelectSeq(its, LAMBDA blog : TitleHolds(blog, value) /\ CategoryHolds(blog, category))

Count(list, x) == Cardinality({i \in 1..Len(list) : list[i] = x})

\* the two lists hold the same records, each as often
SameRecords(a, b) ==
    /\ Len(a) = Len(b)
    /\ \A x \in Range(a) \cup Range(b) : Count(a, x) = Count(b, x)

IsPrefix(a, b) == Len(a) <= Len(b) /\ \A i \in 1..Len(a) : a[i] = b[i]

\* C1: in the state right after onControlChange has run (on a sort or
\* category change, or a search timer firing) page is 1 and filteredItems
\* holds exactly the records of the master collection that pass the
\* controls' values.
C1_ControlChangeResetsAndRecomputes ==
    lastOp = "onControlChange" =>
        /\ page = 1
        /\ SameRecords(filteredItems, Passing(items, searchValue, categoryValue))

\* C1 witness: onControlChange has run and kept some, not all, of a master
\* collection.
C1_Witness ==
    /\ lastOp = "onControlChange"
    /\ page = 1
    /\ filteredItems # <<>>
    /\ Len(filteredItems) < Len(items)

\* C2: after a successful load the list shows min(perPage * page,
\* |filteredItems|) records, the first that many of filteredItems in order.
C2_DisplayedIsPrefix ==
    loadOutcome.k = "ok" =>
        /\ Len(listView.cards) =
              (IF perPage * page < Len(filteredItems)
               THEN perPage * page ELSE Len(filteredItems))
        /\ \A i \in 1..Len(listView.cards) : listView.cards[i] = filteredItems[i]

\* C2 witness: a view longer than one page is shown cut to perPage records.
C2_Witness ==
    /\ loadOutcome.k = "ok"
    /\ Len(filteredItems) > perPage * page
    /\ Len(listView.cards) = perPage

\* C3 as stated: after a load that failed with status 500 the error surface
\* shows "Error: Failed to fetch blogs (Status: 500). Please check the
\* console for details.", the list is empty and the indicator hidden.
C3_Original ==
    loadOutcome = Outcome("status", 500) =>
        /\ errorVisible
        /\ errorText = "Error: Failed to fetch blogs (Status: 500). Please check the console for details."
        /\ listView = Blank
        /\ ~loadingVisible

\* C3 amended: after a load that failed with status 500 the error surface
\* shows "Error: Data loading failed: Failed to fetch blogs (Status: 500).
\* Please check the console for details.", the list is empty and the
\* indicator hidden.
C3_Status500Message ==
    loadOutcome = Outcome("status", 500) =>
        /\ errorVisible
        /\ errorText = "Error: Data loading failed: Failed to fetch blogs (Status: 500). Please check the console for details."
        /\ listView = Blank
        /\ ~loadingVisible

\* C3 witness: init has ended on a response of status 500.
C3_Witness == initPc = "done" /\ loadOutcome = Outcome("status", 500)

\* C4: the loading indicator is visible while the fetch or the body read is
\* pending, and hidden once init has ended, however it ended.
C4_LoadingIndicator ==
    /\ initPc \in {"fetching", "reading", "assigned"} => loadingVisible
    /\ initPc = "done" =>
          /\ ~loadingVisible
          /\ loadOutcome.k \in {"ok", "status", "notarray", "syntax", "empty",
                                "network", "pipeline"}

\* C4 witness: init has ended on an error raised by the first pipeline run.
C4_Witness == initPc = "done" /\ loadOutcome.k = "pipeline" /\ ~loadingVisible

\* the record's published date parses to a point in time
ValidDate(blog) == ~ParseDate(blog.published_date).nan

\* C5 as stated: with sort key 'date' the view has the newer of two valid
\* dates first, no unparseable date before a valid one, and the records with
\* unparseable dates in the order they have in the filtered list.  It is
\* stated for the filtered lists on which the comparator is consistent, where
\* the language fixes the result of sort.
C5_Original ==
    (/\ Settled
     /\ sortValue = "date"
     /\ Consistent(Passing(items, searchValue, categoryValue), "date")) =>
        /\ \A i, j \in 1..Len(filteredItems) :
             i < j =>
                /\ (ValidDate(filteredItems[i]) /\ ValidDate(filteredItems[j])) =>
                      ParseDate(filteredItems[i].published_date).v >=
                          ParseDate(filteredItems[j].published_date).v
                /\ ~(~ValidDate(filteredItems[i]) /\ ValidDate(filteredItems[j]))
        /\ SelectSeq(filteredItems, LAMBDA blog : ~ValidDate(blog)) =
              SelectSeq(Passing(items, searchValue, categoryValue),
                        LAMBDA blog : ~ValidDate(blog))

\* C6 as stated: no run of applyFiltersAndSorting raises an error, neither
\* the one init makes nor one onControlChange makes.
C6_Original ==
    /\ loadOutcome.k # "pipeline"
    /\ ~(lastOp = "onControlChange" /\ lastThrew)

\* C7: the search step keeps, in order, exactly the records whose lower-cased
\* title holds the lower-cased search value; the empty value keeps all; two
\* values that differ only in letter case keep the same records.
C7_SearchStep ==
    loadOutcome.k = "ok" =>
        \A v \in SearchValues :
            /\ SearchStep(items, v) =
                  Ok(SelectSeq(items, LAMBDA blog : TitleHolds(blog, v)))
            /\ v = <<>> => SearchStep(items, v) = Ok(items)
            /\ \A w \in SearchValues :
                  ToLowerCase(v) = ToLowerCase(w) =>
                      SearchStep(items, v) = SearchStep(items, w)

\* C7 witness: the search value "AI" has kept a record titled in lower case
\* and dropped another record.
C7_Witness ==
    /\ Settled
    /\ searchValue = <<"A", "I">>
    /\ BlogB \in Range(filteredItems)
    /\ BlogC \in Range(items)
    /\ BlogC \notin Range(filteredItems)

\* C8: with no sort key the view is the master collection cut down, in master
\* order, to the records that pass the search test and whose category is
\* exactly the selected one (any category if none is selected); it is no
\* longer than the master and holds no other record.
C8_UnsortedViewIsSubsequence ==
    (Settled /\ sortValue = "") =>
        /\ filteredItems = Passing(items, searchValue, categoryValue)
        /\ Len(filteredItems) <= Len(items)
        /\ Range(filteredItems) \subseteq Range(items)

\* C8 witness: the category "Startups" has kept a record and dropped the
\* record of category "startups".
C8_Witness ==
    /\ Settled
    /\ sortValue = ""
    /\ categoryValue = "Startups"
    /\ BlogA \in Range(filteredItems)
    /\ BlogB \in Range(items)
    /\ BlogB \notin Range(filteredItems)

\* C9: while the listener's timer is pending it is the only one, no callback
\* of the burst has run, and it is due SearchDelay after the last input
\* event; once none is pending the burst has run exactly one callback, at
\* SearchDelay after its last input event.
C9_DebounceOneRunPerBurst ==
    (listening /\ burst.events # "none") =>
        /\ timers # <<>> =>
              /\ Len(timers) = 1
              /\ burst.runs = 0
              /\ timers[1] + sinceInput = SearchDelay
        /\ timers = <<>> =>
              /\ burst.runs = 1
              /\ sinceInput = SearchDelay

\* C9 witness: a burst of several input events has ended with one callback.
C9_Witness ==
    /\ burst.events = "many"
    /\ burst.runs = 1
    /\ timers = <<>>
    /\ lastOp = "onControlChange"

\* C10 as stated: a call of advancePage increments page by 1 and renders.
C10_Original ==
    [][lastOp' = "advancePage" =>
          /\ page' = page + 1
          /\ listView' = Render(filteredItems, page')]_vars

\* C10 amended: the slice render takes for page n is an ordered prefix of
\* the one for page n + 1, and of a view of 25 records pages 1, 2 and 3 give
\* 10, 20 and 25; but page is always 1, a call of advancePage ends with an
\* error, and a view of 25 records is shown as its first 10.
C10_CumulativeButNeverAdvanced ==
    /\ page = 1
    /\ lastOp = "advancePage" => lastThrew
    /\ \A n \in 1..3 : IsPrefix(Slice(filteredItems, n), Slice(filteredItems, n + 1))
    /\ Len(filteredItems) = 25 =>
          /\ Len(Slice(filteredItems, 1)) = 10
          /\ Len(Slice(filteredItems, 2)) = 20
          /\ Len(Slice(filteredItems, 3)) = 25
          /\ loadOutcome.k = "ok" => Len(listView.cards) = 10

\* C10 witness: advancePage has been called on a view of 25 records, of
\* which 10 are still shown.
C10_Witness ==
    /\ lastOp = "advancePage"
    /\ Len(filteredItems) = 25
    /\ Len(listView.cards) = 10

\* C11: the list never shows more than 10 records, and shows exactly 10
\* whenever the view holds at least 10.
C11_AtMostTenShown ==
    /\ Len(listView.cards) <= 10
    /\ Len(filteredItems) >= 10 => Len(listView.cards) = 10

\* C11 witness: after a control change a view of more than 10 records is
\* shown as 10.
C11_Witness ==
    /\ lastOp = "onControlChange"
    /\ Len(filteredItems) > 10
    /\ Len(listView.cards) = 10

\* C12: once the load has succeeded the list is what render makes of the
\* view: the no-results note, and no card, exactly when the view is empty,
\* and otherwise cards, each a record of the view at its place; it is never
\* left blank.
C12_AlwaysRendered ==
    loadOutcome.k = "ok" =>
        /\ listView.kind # "blank"
        /\ filteredItems = <<>> <=> listView.kind = "noresults"
        /\ listView.kind = "noresults" => listView.cards = <<>>
        /\ listView.kind = "cards" =>
              /\ listView.cards # <<>>
              /\ \A i \in 1..Len(listView.cards) :
                    /\ i <= Len(filteredItems)
                    /\ listView.cards[i] = filteredItems[i]
                    /\ listView.cards[i] \in Range(items)

\* C12 witness: a control change has emptied the view of a master that holds
\* records, and the list shows the no-results note.
C12_Witness ==
    /\ lastOp = "onControlChange"
    /\ items # <<>>
    /\ filteredItems = <<>>
    /\ listView.kind = "noresults"

\* the reading time the claim sorts by: the field, 0 if absent
ReadingTimeKey(blog) ==
    IF blog.reading_time.k = "num" THEN blog.reading_time.n ELSE 0

\* C13: with sort key 'reading_time' and no search timer pending, the view
\* holds the records passing the filters in ascending order of reading time,
\* absent counting as 0; records of equal reading time are in the order they
\* have among the passing records of the master; and a record without a
\* reading time is displayed as '5 min read'.
C13_ReadingTimeOrder ==
    (Settled /\ sortValue = "reading_time") =>
        LET passing == Passing(items, searchValue, categoryValue)
            Keyed(list, n) == SelectSeq(list, LAMBDA blog : ReadingTimeKey(blog) = n)
        IN /\ SameRecords(filteredItems, passing)
           /\ \A i, j \in 1..Len(filteredItems) :
                 i < j => ReadingTimeKey(filteredItems[i]) <= ReadingTimeKey(filteredItems[j])
           /\ \A blog \in Range(passing) :
                 Keyed(filteredItems, ReadingTimeKey(blog)) = Keyed(passing, ReadingTimeKey(blog))
           /\ \A i \in 1..Len(listView.cards) :
                 listView.cards[i].reading_time.k = "absent" =>
                     ReadingTimeText(listView.cards[i].reading_time) = "5 min read"

\* C13 witness: the record without a reading time has moved in front of two
\* distinct records of reading time 5, which kept their order, and its card
\* reads '5 min read'.
C13_Witness ==
    /\ Settled
    /\ lastOp = "onControlChange"
    /\ sortValue = "reading_time"
    /\ items = <<BlogC, BlogA, BlogB>>
    /\ filteredItems = <<BlogB, BlogC, BlogA>>
    /\ listView.cards = filteredItems
    /\ ReadingTimeText(listView.cards[1].reading_time) = "5 min read"

\* C14: once the load has succeeded, items is the array the response
\* delivered, in its order, whatever control events have been handled since.
C14_MasterUnchanged ==
    loadOutcome.k = "ok" => items = delivered[1]

\* C14 witness: a control change has sorted the view into another order than
\* the master's, and the master is still the delivered array.
C14_Witness ==
    /\ loadOutcome.k = "ok"
    /\ lastOp = "onControlChange"
    /\ sortValue # ""
    /\ SameRecords(filteredItems, items)
    /\ filteredItems # items
    /\ items = delivered[1]

\* the calls of init made so far
InitCalls ==
    (IF initPc = "idle" THEN 0 ELSE 1) + (IF initPc2 = "idle" THEN 0 ELSE 1)

\* C15: in every state the number of network reads is the number of calls of
\* init: each call fetches once, and neither a failed load nor a control
\* event fetches again.
C15_OneFetchPerInit ==
    fetches = InitCalls

\* C15 witness: of two calls one has failed and the other has loaded, a
\* control change has been handled since, and two reads have been made.
C15_Witness ==
    /\ loadOutcome.k \in {"network", "status", "syntax", "empty", "notarray"}
    /\ loadOutcome2.k = "ok"
    /\ lastOp = "onControlChange"
    /\ fetches = 2

\* C16: when two overlapping loads have both succeeded, items is the array of
\* the response that arrived last, whichever call was made first.
C16_LastResponseWins ==
    (loadOutcome.k = "ok" /\ loadOutcome2.k = "ok") =>
        /\ resolvedLast \in {1, 2}
        /\ items = delivered[resolvedLast]

\* C16 witness: the first call's response arrived after the second's with a
\* different array, and items is the first call's array.
C16_Witness ==
    /\ loadOutcome.k = "ok"
    /\ loadOutcome2.k = "ok"
    /\ resolvedLast = 1
    /\ delivered[1] # delivered[2]
    /\ items = delivered[1]

\* C17: after a successful load, whenever no search timer is pending, the
\* view is a result of the pipeline for the master and the present values of
\* the search field, the category selector and the sort selector; it holds
\* exactly the records passing the two filters.
C17_ViewMatchesControls ==
    Settled =>
        /\ Ok(filteredItems) \in ApplyFiltersAndSorting(items, items, searchValue,
                                                        categoryValue, sortValue)
        /\ SameRecords(filteredItems, Passing(items, searchValue, categoryValue))

\* C17 witness: the search term and the sort key were chosen before the
\* response arrived, while no listener was registered, and the view the load
\* produced is filtered by them.
C17_Witness ==
    /\ Settled
    /\ lastOp = "initResumed"
    /\ searchValue # <<>>
    /\ sortValue # ""
    /\ filteredItems # <<>>
    /\ Len(filteredItems) < Len(items)

\* the load failed inside fetchData
FetchDataFailed ==
    loadOutcome.k \in {"network", "status", "syntax", "empty", "notarray"}

\* the messages the error fetchData's try block raised may carry: one, but
\* for a rejected fetch, whose wording is the platform's
FailureMessages ==
    CASE loadOutcome.k = "network" -> NetworkMessages
      [] loadOutcome.k = "status" -> {StatusMessage(loadOutcome.status)}
      [] loadOutcome.k = "syntax" -> {SyntaxMessage("<html>")}
      [] loadOutcome.k = "empty" -> {SyntaxMessage("")}
      [] OTHER -> {NotArrayMessage}

\* C18: after a load that failed in fetchData no listener is registered and no
\* timer is ever scheduled; whatever control events follow, the list stays
\* empty, the error surface keeps showing the message of that failure, the
\* view stays empty and no step runs onControlChange.
C18_FailedLoadStaysInert ==
    FetchDataFailed =>
        /\ ~listening
        /\ timers = <<>>
        /\ listView = Blank
        /\ filteredItems = <<>>
        /\ errorVisible
        /\ \E message \in FailureMessages :
              errorText = ErrorText(FetchDataError(message))
        /\ lastOp \notin {"onControlChange", "searchInput"}

\* C18 witness: the load has failed and the last step was a control event
\* that found no listener; all three controls hold a value.
C18_Witness ==
    /\ FetchDataFailed
    /\ initPc = "done"
    /\ lastOp = "none"
    /\ searchValue # <<>>
    /\ categoryValue # ""
    /\ sortValue # ""
    /\ listView = Blank
    /\ errorVisible

====
